---- MODULE Spec2Model ----
(***************************************************************************)
(* go-wikigenre: the concurrent query-resolution engine of wikigenre.go.   *)
(*                                                                         *)
(* A batch of raw query tokens is normalised into artistAlbum records,     *)
(* one goroutine per record resolves it through AlbumGenres (search,       *)
(* page fetch, scrape) with the records deduplicated through a map that a  *)
(* mutex guards, and main prints one line per result after the join.       *)
(*                                                                         *)
(* Go strings are modelled as sequences of bytes, an ASCII byte written as  *)
(* the string of its character and another byte as "0xNN", so that         *)
(* splitting, formatting and joining are computed and not assumed.         *)
(***************************************************************************)
EXTENDS Integers, Sequences, FiniteSets, TLC

\* ------------------------------------------------------------------ bounds

\* The largest number of query tokens in one batch.
MaxBatch == 2

\* The largest length of an artist or album handed to searchVariants.
MaxName == 2

\* The largest HTTP status code of a reply: three digits.
MaxStatus == 999

\* The largest number of elements of the JSON array of a search reply.
MaxElems == 5

\* The largest length of a command-line argument handed to artistAlbumsFromCLI.
MaxArg == 7

\* The largest number of characters of a link text handed to title.
MaxText == 4

\* The largest number of links one selection of scrapeGenres matches.
MaxLinks == 2

\* ----------------------------------------------------------------- strings

\* The literal separator " - " of the direct mode.
Sep == <<" ", "-", " ">>

\* The separator "; " of the output lines.
OutSep == <<";", " ">>

HasAt(s, p, i) == i + Len(p) - 1 <= Len(s) /\ SubSeq(s, i, i + Len(p) - 1) = p

\* The position of the last occurrence of p in s, 0 if none.
IndexLast(s, p) ==
    IF \E i \in 1..Len(s) : HasAt(s, p, i)
    THEN CHOOSE i \in 1..Len(s) : HasAt(s, p, i) /\ \A j \in (i + 1)..Len(s) : ~HasAt(s, p, j)
    ELSE 0

\* strings.Index: the position of the first occurrence of p in s, 0 if none.
Index(s, p) ==
    IF \E i \in 1..Len(s) : HasAt(s, p, i)
    THEN CHOOSE i \in 1..Len(s) : HasAt(s, p, i) /\ \A j \in 1..(i - 1) : ~HasAt(s, p, j)
    ELSE 0

\* strings.SplitN(s, sep, 2)
SplitN2(s, sep) ==
    LET i == Index(s, sep)
    IN  IF i = 0 THEN <<s>>
        ELSE <<SubSeq(s, 1, i - 1), SubSeq(s, i + Len(sep), Len(s))>>

\* strings.Split(s, sep), sep not empty
RECURSIVE Split(_, _)
Split(s, sep) ==
    LET i == Index(s, sep)
    IN  IF i = 0 THEN <<s>>
        ELSE <<SubSeq(s, 1, i - 1)>> \o Split(SubSeq(s, i + Len(sep), Len(s)), sep)

\* strings.Join(parts, sep)
RECURSIVE Join(_, _)
Join(parts, sep) ==
    IF Len(parts) = 0 THEN <<>>
    ELSE IF Len(parts) = 1 THEN parts[1]
    ELSE parts[1] \o sep \o Join(Tail(parts), sep)

\* strings.ToUpper on a string of one byte, as title calls it on part[0:1]:
\* an ASCII lower-case letter (of the alphabet the model uses) is upper-cased;
\* any other byte, also the first byte of a character of several bytes such
\* as 0xC3 of "\u00e9" (0xC3 0xA9), is no lower-case letter and comes back as
\* it is.
ToUpper(c) ==
    CASE c = "r" -> "R"
      [] c = "p" -> "P"
      [] c = "k" -> "K"
      [] OTHER -> c

\* ------------------------------------------------------------ Go slices

\* A Go slice value: nil, or a (possibly empty) sequence.
NilSlice == [isNil |-> TRUE, xs |-> <<>>]
Slice(xs) == [isNil |-> FALSE, xs |-> xs]

\* ------------------------------------------------------------ normaliser

artistAlbum(artist, album, both) == [artist |-> artist, album |-> album, both |-> both]

\* artistAlbum{}: the zero value.
ZeroArtistAlbum == artistAlbum(<<>>, <<>>, <<>>)

\* One iteration of artistAlbumsFromCLI.
FromArg(arg) ==
    LET parts == SplitN2(arg, Sep)
    IN  IF Len(parts) = 1 THEN artistAlbum(<<>>, arg, arg)
        ELSE artistAlbum(parts[1], parts[2], arg)

artistAlbumsFromCLI(args) == [i \in 1..Len(args) |-> FromArg(args[i])]

\* -------------------------------------------------- foobar2000 items

\* \d
Digits == {"0", "1", "2", "3", "4", "5", "6", "7", "8", "9"}

\* \d+ from position r of s: the positions just after one or more digits.
AfterDigits(s, r) == {e \in (r + 1)..(Len(s) + 1) : \A i \in r..(e - 1) : s[i] \in Digits}

\* (?: CD\d+)? from position r: the positions it can end at.
AfterCD(s, r) ==
    {r} \cup (IF HasAt(s, <<" ", "C", "D">>, r) THEN AfterDigits(s, r + 3) ELSE {})

\* (?: #\d+)? from position r: the positions it can end at.
AfterTrack(s, r) ==
    {r} \cup (IF HasAt(s, <<" ", "#">>, r) THEN AfterDigits(s, r + 2) ELSE {})

\* (?: CD\d+)?(?: #\d+)?\] matches from position r.
QualifiersMatch(s, r) ==
    \E r1 \in AfterCD(s, r) : \E r2 \in AfterTrack(s, r1) : r2 <= Len(s) /\ s[r2] = "]"

\* (.+?) after the "[" at position q: the positions the album can end at.
AlbumEnds(s, q) == {f \in (q + 1)..Len(s) : QualifiersMatch(s, f + 1)}

\* \[(.+?)?(?: CD\d+)?(?: #\d+)?\] matches from position q.
BracketMatches(s, q) ==
    /\ q <= Len(s)
    /\ s[q] = "["
    /\ (AlbumEnds(s, q) # {} \/ QualifiersMatch(s, q + 1))

\* The second group, for the "[" at position q: the lazy (.+?) takes the
\* shortest text after which the rest matches, and the group is left out only
\* when no such text exists.
AlbumGroup(s, q) ==
    IF AlbumEnds(s, q) # {}
    THEN SubSeq(s, q + 1, CHOOSE f \in AlbumEnds(s, q) : \A g \in AlbumEnds(s, q) : f <= g)
    ELSE <<>>

\* (.+) from position p: the positions the artist can end at, " - " and the
\* bracket following.
ArtistEnds(s, p) == {e \in p..Len(s) : HasAt(s, Sep, e + 1) /\ BracketMatches(s, e + 4)}

\* The whole expression matches from position p.
MatchesAt(s, p) == ArtistEnds(s, p) # {} \/ BracketMatches(s, p)

\* reFoobar2kItem.FindStringSubmatch(s): the leftmost match, the greedy (.+)
\* of the first group as long as it can be; ok is false for the nil result
\* of no match, and a group that took no part is the empty string.
FindStringSubmatch(s) ==
    IF \E p \in 1..Len(s) : MatchesAt(s, p)
    THEN LET p == CHOOSE i \in 1..Len(s) : MatchesAt(s, i) /\ \A j \in 1..(i - 1) : ~MatchesAt(s, j)
         IN  IF ArtistEnds(s, p) # {}
             THEN LET e == CHOOSE i \in ArtistEnds(s, p) : \A j \in ArtistEnds(s, p) : i >= j
                  IN  [ok |-> TRUE, artist |-> SubSeq(s, p, e), album |-> AlbumGroup(s, e + 4)]
             ELSE [ok |-> TRUE, artist |-> <<>>, album |-> AlbumGroup(s, p)]
    ELSE [ok |-> FALSE, artist |-> <<>>, album |-> <<>>]

parseFoobar2kItem(item) ==
    LET matches == FindStringSubmatch(item)
        artist == matches.artist
        album == matches.album
    IN  IF ~matches.ok THEN ZeroArtistAlbum
        ELSE IF artist = <<>> THEN artistAlbum(artist, album, album)
        ELSE IF album = <<>> THEN artistAlbum(artist, album, artist)
        ELSE artistAlbum(artist, album, artist \o Sep \o album)

\* ------------------------------------------------------ variant generator

Chars1 == <<" ", "(">>
Chars2 == <<" ", "a", "l", "b", "u", "m", ")">>

\* The variants without the fallback to the artist alone.
searchVariantsNoArtist(artist, album) ==
    (IF artist # <<>> /\ album # <<>>
        THEN <<album \o Chars1 \o artist \o Chars2>> ELSE <<>>)
    \o (IF album # <<>>
        THEN <<album \o Chars1 \o SubSeq(Chars2, 2, 7), album>> ELSE <<>>)

\* The search strings to try for (artist, album), most specific first.
searchVariants(artist, album) ==
    (IF artist # <<>> /\ album # <<>>
        THEN <<album \o Chars1 \o artist \o Chars2>> ELSE <<>>)
    \o (IF album # <<>>
        THEN <<album \o Chars1 \o SubSeq(Chars2, 2, 7), album>> ELSE <<>>)
    \o (IF artist # <<>> THEN <<artist>> ELSE <<>>)

\* ------------------------------------------------------------- errors

\* The nil error.
ErrNil == "nil"
ErrNoGenres == "couldn't find any genres"
ErrSearchTransport == "search: transport failure"
ErrSearchStatus == "search on Wikipedia failed, HTTP status"
ErrJson == "json: cannot unmarshal"
ErrAssert == "unable to assert"
ErrPageTransport == "page: transport failure"
ErrPageStatus == "failed to open Wikipedia page, HTTP status"
ErrParse == "html: parse failure"

\* --------------------------------------------------------- search reply

\* Only the statuses below 400 are accepted.
isResponseOKBelow400(status) == status < 400

\* isResponseOK returns false if response code is between 400 and 599.
isResponseOK(status) == ~(400 <= status /\ status < 600)

\* JSON values of a response body.
JStr(s) == [t |-> "string", s |-> s, xs |-> <<>>]
JNum == [t |-> "number", s |-> "", xs |-> <<>>]
JNull == [t |-> "null", s |-> "", xs |-> <<>>]
JArr(xs) == [t |-> "array", s |-> "", xs |-> xs]
\* A body that is no JSON text at all.
JMalformed == [t |-> "malformed", s |-> "", xs |-> <<>>]

\* Body.FromJsonTo(&jsonResp) with jsonResp a []interface{}: an array decodes to
\* its elements, null to the nil slice, anything else is an error.
FromJsonTo(body) ==
    IF body.t = "array" THEN [err |-> ErrNil, v |-> body.xs]
    ELSE IF body.t = "null" THEN [err |-> ErrNil, v |-> <<>>]
    ELSE [err |-> ErrJson, v |-> <<>>]

interfaceToStringSlice(obj) ==
    IF obj.t = "array" /\ \A i \in 1..Len(obj.xs) : obj.xs[i].t = "string"
    THEN [ok |-> TRUE, v |-> [i \in 1..Len(obj.xs) |-> obj.xs[i].s]]
    ELSE [ok |-> FALSE, v |-> <<>>]

\* The outcome of a call: it panics, or returns (URIs, err).
SearchPanic == [panic |-> TRUE, err |-> ErrNil, uris |-> <<>>]
SearchErr(e) == [panic |-> FALSE, err |-> e, uris |-> <<>>]
SearchOK(uris) == [panic |-> FALSE, err |-> ErrNil, uris |-> uris]

\* decodeSearchResponse: jsonResp[k] is indexed without a length check, so an
\* array shorter than k+1 elements panics (index out of range).
decodeSearchResponse(body) ==
    LET j == FromJsonTo(body)
        n == Len(j.v)
    IN  IF j.err # ErrNil THEN SearchErr(j.err)
        ELSE IF n < 1 THEN SearchPanic
        ELSE IF j.v[1].t # "string" THEN SearchErr(ErrAssert)
        ELSE IF n < 2 THEN SearchPanic
        ELSE IF ~interfaceToStringSlice(j.v[2]).ok THEN SearchErr(ErrAssert)
        ELSE IF n < 3 THEN SearchPanic
        ELSE IF ~interfaceToStringSlice(j.v[3]).ok THEN SearchErr(ErrAssert)
        ELSE IF n < 4 THEN SearchPanic
        ELSE IF ~interfaceToStringSlice(j.v[4]).ok THEN SearchErr(ErrAssert)
        ELSE SearchOK(interfaceToStringSlice(j.v[4]).v)

\* searchWikipedia on the reply sr of the search service:
\* sr.terr: the transport failed; sr.status, sr.body: the HTTP reply.
searchWikipedia(sr) ==
    IF sr.terr THEN SearchErr(ErrSearchTransport)
    ELSE IF ~isResponseOK(sr.status) THEN SearchErr(ErrSearchStatus)
    ELSE decodeSearchResponse(sr.body)

\* wikipediaPage on the reply pr of the page fetch: (resp, err), resp nil on error.
wikipediaPage(pr) ==
    IF pr.terr THEN [respNil |-> TRUE, err |-> ErrPageTransport]
    ELSE IF ~isResponseOK(pr.status) THEN [respNil |-> TRUE, err |-> ErrPageStatus]
    ELSE [respNil |-> FALSE, err |-> ErrNil]

\* ------------------------------------------------------------- scraper

\* title slices part[0:1] of every space-delimited part: an empty part panics.
titlePanics(s) == \E i \in 1..Len(Split(s, <<" ">>)) : Split(s, <<" ">>)[i] = <<>>

\* Title upper-cases only the first letter of each word.
title(s) ==
    LET parts == Split(s, <<" ">>)
    IN  Join([i \in 1..Len(parts) |-> <<ToUpper(parts[i][1])>> \o Tail(parts[i])], <<" ">>)

\* The texts of a selection, through textFromSelection.
TextsPanic(texts) == \E i \in 1..Len(texts) : titlePanics(texts[i])
Texts(texts) == [i \in 1..Len(texts) |-> title(texts[i])]

\* A document is the link texts its two selections match:
\* doc.tier1 for "table.haudio td.category>a", doc.tier2 for the Genre row of
\* "table.infobox".
scrapeGenresPanics(doc) ==
    \/ TextsPanic(doc.tier1)
    \/ Len(doc.tier1) = 0 /\ TextsPanic(doc.tier2)

scrapeGenres(doc) ==
    IF Len(doc.tier1) > 0 THEN Slice(Texts(doc.tier1))
    ELSE IF Len(doc.tier2) > 0 THEN Slice(Texts(doc.tier2))
    ELSE NilSlice

\* ------------------------------------------------------- lookup pipeline

\* The outcome of albumGenres: it panics or returns (gs, err).  For the record
\* of what happened: failed names the step that failed ("" if none), fetched
\* tells whether the page fetch was issued.
Ret(g, e, failed, fetched) ==
    [panic |-> FALSE, gs |-> g, err |-> e, failed |-> failed, fetched |-> fetched]
Panic(failed, fetched) ==
    [panic |-> TRUE, gs |-> NilSlice, err |-> ErrNil, failed |-> failed,
     fetched |-> fetched]

\* The bail-out is missing: the fetch is issued whatever the search found.
NothingFoundNever(uris) == FALSE

\* Bail if nothing's found.
NothingFound(uris) == Len(uris) = 0

\* albumGenres(query) on the replies sr (search) and pr (page fetch of the first
\* URI).  The error of wikipediaPage is not tested before resp.Body is read, so
\* a failed fetch dereferences the nil response and panics.
albumGenres(sr, pr) ==
    LET s == searchWikipedia(sr)
        p == wikipediaPage(pr)
        sstep == IF sr.terr \/ ~isResponseOK(sr.status) THEN "search" ELSE "decode"
    IN  IF s.panic THEN Panic(sstep, FALSE)
        ELSE IF s.err # ErrNil THEN Ret(NilSlice, s.err, sstep, FALSE)
        ELSE IF NothingFound(s.uris) THEN Ret(NilSlice, ErrNil, "", FALSE)
        ELSE IF p.respNil THEN Panic("fetch", TRUE)
        ELSE IF pr.perr THEN Ret(NilSlice, ErrParse, "parse", TRUE)
        ELSE IF scrapeGenresPanics(pr.doc) THEN Panic("scrape", TRUE)
        ELSE Ret(scrapeGenres(pr.doc), ErrNil, "", TRUE)

\* The loop goes on to the next variant whatever the lookup returned.
FoundNever(g) == FALSE

\* The loop of AlbumGenres ends at the first variant with genres.
Found(g) == Len(g.xs) > 0

\* ------------------------------------------------------------- inputs

\* Raw tokens of the command line, for the batches of several records.
Tokens ==
    { <<>>,
      <<"X">>,
      Sep \o <<"X">>,
      Sep }

\* Raw tokens for the batches of one record: also with an artist.
TokensOne == Tokens \cup { <<"A">> \o Sep, <<"A">> \o Sep \o <<"X">> }

Batches == UNION { [1..n -> Tokens] : n \in 1..MaxBatch }

BatchesOne == [1..1 -> TokensOne]

URIs0 == JArr(<<>>)
URIs1 == JArr(<<JStr("uri1"), JStr("uri2")>>)

BodyNoURIs == JArr(<<JStr("q"), URIs0, URIs0, URIs0>>)
BodyURIs == JArr(<<JStr("q"), URIs0, URIs0, URIs1>>)

\* Bodies of the search service.
SearchBodies ==
    { JMalformed,
      JNull,
      JArr(<<JStr("q"), URIs0, URIs0>>),
      JArr(<<JNum, URIs0, URIs0, URIs1>>),
      JArr(<<JStr("q"), URIs0, URIs0, JArr(<<JNum>>)>>),
      BodyNoURIs,
      BodyURIs,
      JArr(<<JStr("q"), URIs0, URIs0, URIs1, JNum>>) }

\* Replies of the search service: the transport fails, or an HTTP status comes
\* back with a body (the body of a refused request is not read).
SearchReplies ==
    { [terr |-> TRUE, status |-> 0, body |-> JNull] }
    \cup { [terr |-> FALSE, status |-> 404, body |-> JNull] }
    \cup [terr : {FALSE}, status : {200}, body : SearchBodies]
    \cup { [terr |-> FALSE, status |-> 600, body |-> BodyURIs] }

\* The fewer replies that the batches of several records are run against: a
\* refused request, a body that is too short, no URI, some URIs.
SearchRepliesBrief ==
    { [terr |-> FALSE, status |-> 404, body |-> JNull] }
    \cup [terr : {FALSE}, status : {200}, body : {JNull, BodyNoURIs, BodyURIs}]

Rock == <<"r", "o", "c", "k">>
Pop == <<"p", "o", "p">>

DocNone == [tier1 |-> <<>>, tier2 |-> <<>>]

\* Documents of the page fetch.
Docs ==
    { DocNone,
      [tier1 |-> <<Rock, Pop>>, tier2 |-> <<Pop>>],
      [tier1 |-> <<>>, tier2 |-> <<Pop>>],
      [tier1 |-> << <<>> >>, tier2 |-> <<>>] }

\* Replies of the page fetch: the transport fails, or an HTTP status comes back
\* with a body that parses into a document or does not (perr).
PageReplies ==
    { [terr |-> TRUE, status |-> 0, perr |-> FALSE, doc |-> DocNone] }
    \cup { [terr |-> FALSE, status |-> 404, perr |-> FALSE, doc |-> DocNone] }
    \cup { [terr |-> FALSE, status |-> 200, perr |-> TRUE, doc |-> DocNone] }
    \cup [terr : {FALSE}, status : {200}, perr : {FALSE}, doc : Docs]
    \cup { [terr |-> FALSE, status |-> 600, perr |-> FALSE, doc |-> DocNone] }

\* The fewer replies of the page fetch: a refused request, a body that does
\* not parse, a page without genres, a page with genres.
PageRepliesBrief ==
    { [terr |-> FALSE, status |-> 404, perr |-> FALSE, doc |-> DocNone] }
    \cup { [terr |-> FALSE, status |-> 200, perr |-> TRUE, doc |-> DocNone] }
    \cup [terr : {FALSE}, status : {200}, perr : {FALSE},
          doc : {DocNone, [tier1 |-> <<Rock, Pop>>, tier2 |-> <<Pop>>]}]

\* The fewest replies, for the runs under a fair scheduler: a refused search,
\* no URI, some URIs; a refused page fetch, a page with genres.
SearchRepliesTerse ==
    { [terr |-> FALSE, status |-> 404, body |-> JNull] }
    \cup [terr : {FALSE}, status : {200}, body : {BodyNoURIs, BodyURIs}]

PageRepliesTerse ==
    { [terr |-> FALSE, status |-> 404, perr |-> FALSE, doc |-> DocNone],
      [terr |-> FALSE, status |-> 200, perr |-> FALSE,
       doc |-> [tier1 |-> <<Rock, Pop>>, tier2 |-> <<Pop>>]] }

\* The tokens of those runs: the empty token and two different keys.
TokensTerse == { <<>>, <<"X">>, Sep \o <<"X">> }

BatchesTerse == UNION { [1..n -> TokensTerse] : n \in 1..MaxBatch }

\* -------------------------------------------------------------- state

VARIABLES
    service,   \* which replies the two services can give: "full", "brief", "terse"
    args,      \* flag.Args()
    as,        \* the batch of artistAlbum records
    pc,        \* pc[u]: where goroutine u stands
    vi,        \* vi[u]: the index of the variant AlbumGenres is at
    gs,        \* gs[u]: the genres AlbumGenres returned to u
    err,       \* err[u]: the error AlbumGenres returned to u
    tmp,       \* tmp[u]: the value of errs that u's unsynchronised append read
    searched,  \* searched[u]: the variants u searched for, in order
    nfetch,    \* nfetch[u]: the number of pages u fetched
    nempty,    \* nempty[u]: the number of u's searches that came back with no URI
    failed,    \* failed[u]: the step of u's pipeline that failed, "" if none
    last,      \* last[u]: the genres of u's last albumGenres call that returned
    ag,        \* ag[u]: the number of times u called AlbumGenres
    uniqueArtistAlbumMap,
    errs,
    m,         \* the mutex: 0 when free, else the goroutine holding it
    wg,        \* the counter of the wait group
    crashed,   \* a goroutine panicked: the process is gone
    mainpc,
    result,    \* what multipleAlbumGenres returned
    stdout,
    stderr,
    code,
    call,      \* a function called on its own: [fn, in], fn = "" when there is none
    retv       \* <<>> before that call returns, then <<what it returned>>

vars == <<service, args, as, pc, vi, gs, err, tmp, searched, nfetch, nempty, failed, last, ag, uniqueArtistAlbumMap, errs, m, wg,
          crashed, mainpc, result, stdout, stderr, code, call, retv>>

Units == 1..Len(as)

\* No function is called on its own: the program runs.
NoCall == [fn |-> "", in |-> <<>>]

\* uniqueArtistAlbumMap[q] = v
Put(map, q, v) == [k \in (DOMAIN map) \cup {q} |-> IF k = q THEN v ELSE map[k]]
\* uniqueArtistAlbumMap[q], nil for a missing key
Get(map, q) == IF q \in DOMAIN map THEN map[q] ELSE NilSlice
\* The test of the key answers "absent" for a key that is there.
HasNever(map, q) == FALSE

\* _, ok := uniqueArtistAlbumMap[q]
Has(map, q) == q \in DOMAIN map

\* if q == (artistAlbum{})
IsZero(q) == q = ZeroArtistAlbum

Errorf(both, e) == [both |-> both, err |-> e]

Variants(u) == searchVariants(as[u].artist, as[u].album)

InitOn(batches, svc) ==
    /\ service = svc
    /\ args \in batches
    /\ as = artistAlbumsFromCLI(args)
    /\ pc = [u \in 1..Len(args) |-> "check"]
    /\ vi = [u \in 1..Len(args) |-> 1]
    /\ gs = [u \in 1..Len(args) |-> NilSlice]
    /\ err = [u \in 1..Len(args) |-> ErrNil]
    /\ tmp = [u \in 1..Len(args) |-> <<>>]
    /\ searched = [u \in 1..Len(args) |-> <<>>]
    /\ nfetch = [u \in 1..Len(args) |-> 0]
    /\ nempty = [u \in 1..Len(args) |-> 0]
    /\ failed = [u \in 1..Len(args) |-> ""]
    /\ last = [u \in 1..Len(args) |-> NilSlice]
    /\ ag = [u \in 1..Len(args) |-> 0]
    /\ uniqueArtistAlbumMap = <<>>
    /\ errs = <<>>
    /\ m = 0
    /\ wg = Len(args)
    /\ crashed = FALSE
    /\ mainpc = "wait"
    /\ result = <<>>
    /\ stdout = <<>>
    /\ stderr = <<>>
    /\ code = 0

\* ----------------------------------------------------- the goroutines

\* The goroutine returns without telling the wait group.
DoneForgotten(n) == n

\* The deferred wg.Done(): the counter of the wait group after it.
Done(n) == n - 1

\* if q == (artistAlbum{}) { return }, with the deferred wg.Done()
UnitCheck(u) ==
    /\ ~crashed
    /\ pc[u] = "check"
    /\ IF IsZero(as[u])
       THEN /\ pc' = [pc EXCEPT ![u] = "done"]
            /\ wg' = Done(wg)
       ELSE /\ pc' = [pc EXCEPT ![u] = "lock"]
            /\ wg' = wg
    /\ UNCHANGED <<call, retv, service, args, as, vi, gs, err, tmp, searched, nfetch, nempty,
                   failed, last, ag, uniqueArtistAlbumMap, errs, m, crashed, mainpc,
                   result, stdout, stderr, code>>

\* m.Lock() before the test of the key
UnitLock(u) ==
    /\ ~crashed
    /\ pc[u] = "lock"
    /\ m = 0
    /\ m' = u
    /\ pc' = [pc EXCEPT ![u] = "test"]
    /\ UNCHANGED <<call, retv, service, args, as, vi, gs, err, tmp, searched, nfetch, nempty,
                   failed, last, ag, uniqueArtistAlbumMap, errs, wg, crashed, mainpc,
                   result, stdout, stderr, code>>

\* The mutex kept by the goroutine across the call of AlbumGenres.
HeldAcrossAlbumGenres(u) == u

\* m.Unlock() before AlbumGenres(q.artist, q.album): the holder of the mutex
\* once goroutine u has set its nil entry.
UnlockBeforeAlbumGenres(u) == 0

\* _, ok := uniqueArtistAlbumMap[q]; if ok, unlock and return; else store nil,
\* unlock and call AlbumGenres.
UnitTestAndSet(u) ==
    /\ ~crashed
    /\ pc[u] = "test"
    /\ IF Has(uniqueArtistAlbumMap, as[u])
       THEN /\ pc' = [pc EXCEPT ![u] = "done"]
            /\ wg' = Done(wg)
            /\ m' = 0
            /\ UNCHANGED <<uniqueArtistAlbumMap, ag>>
       ELSE /\ uniqueArtistAlbumMap' = Put(uniqueArtistAlbumMap, as[u], NilSlice)
            /\ pc' = [pc EXCEPT ![u] = "resolve"]
            /\ ag' = [ag EXCEPT ![u] = @ + 1]
            /\ wg' = wg
            /\ m' = UnlockBeforeAlbumGenres(u)
    /\ UNCHANGED <<call, retv, service, args, as, vi, gs, err, tmp, searched, nfetch, nempty,
                   failed, last, errs, crashed, mainpc, result, stdout, stderr, code>>

NoPage == [terr |-> FALSE, status |-> 200, perr |-> FALSE, doc |-> DocNone]

\* The search came back, decoded, with no URI.
NoURIs(sr) ==
    LET s == searchWikipedia(sr)
    IN  ~s.panic /\ s.err = ErrNil /\ s.uris = <<>>

\* The page fetch is issued only after a search that gave a URI.
NeedsPage(sr) == albumGenres(sr, NoPage).fetched

\* ErrNoGenres is not appended to errs.
ReportedUnlessNoGenres(e) == e \notin {ErrNil, ErrNoGenres}

\* if err != nil { errs = append(errs, ...) }
Reported(e) == e # ErrNil

\* The replies the two services can give.
SearchRepliesOf(svc) ==
    IF svc = "full" THEN SearchReplies
    ELSE IF svc = "brief" THEN SearchRepliesBrief
    ELSE SearchRepliesTerse

PageRepliesOf(svc) ==
    IF svc = "full" THEN PageReplies
    ELSE IF svc = "brief" THEN PageRepliesBrief
    ELSE PageRepliesTerse

\* One iteration of the loop of AlbumGenres: albumGenres(variant).
AlbumGenresNext(u) ==
    /\ ~crashed
    /\ pc[u] = "resolve"
    /\ vi[u] <= Len(Variants(u))
    /\ \E sr \in SearchRepliesOf(service) :
       \E pr \in (IF ~NeedsPage(sr) THEN {NoPage} ELSE PageRepliesOf(service)) :
          LET r == albumGenres(sr, pr)
          IN  /\ searched' = [searched EXCEPT ![u] = Append(@, vi[u])]
              /\ nfetch' = [nfetch EXCEPT ![u] = IF r.fetched THEN @ + 1 ELSE @]
              /\ nempty' = [nempty EXCEPT ![u] = IF NoURIs(sr) THEN @ + 1 ELSE @]
              /\ failed' = [failed EXCEPT ![u] = r.failed]
              /\ last' = [last EXCEPT ![u] = IF r.panic THEN @ ELSE r.gs]
              /\ IF r.panic
                 THEN /\ crashed' = TRUE
                      /\ pc' = [pc EXCEPT ![u] = "panic"]
                      /\ UNCHANGED <<vi, gs, err>>
                 ELSE IF r.err # ErrNil
                 THEN /\ gs' = [gs EXCEPT ![u] = NilSlice]
                      /\ err' = [err EXCEPT ![u] = r.err]
                      /\ pc' = [pc EXCEPT ![u] = IF Reported(r.err) THEN "errload" ELSE "lock2"]
                      /\ UNCHANGED <<vi, crashed>>
                 ELSE IF Found(r.gs)
                 THEN /\ gs' = [gs EXCEPT ![u] = r.gs]
                      /\ err' = [err EXCEPT ![u] = ErrNil]
                      /\ pc' = [pc EXCEPT ![u] = "lock2"]
                      /\ UNCHANGED <<vi, crashed>>
                 ELSE /\ vi' = [vi EXCEPT ![u] = @ + 1]
                      /\ UNCHANGED <<gs, err, pc, crashed>>
    /\ UNCHANGED <<call, retv, service, args, as, tmp, ag, uniqueArtistAlbumMap, errs, m, wg,
                   mainpc, result, stdout, stderr, code>>

\* The loop of AlbumGenres ran out of variants: return nil, ErrNoGenres.
AlbumGenresExhausted(u) ==
    /\ ~crashed
    /\ pc[u] = "resolve"
    /\ vi[u] > Len(Variants(u))
    /\ gs' = [gs EXCEPT ![u] = NilSlice]
    /\ err' = [err EXCEPT ![u] = ErrNoGenres]
    /\ pc' = [pc EXCEPT ![u] = IF Reported(ErrNoGenres) THEN "errload" ELSE "lock2"]
    /\ UNCHANGED <<call, retv, service, args, as, vi, tmp, searched, nfetch, nempty, failed, last,
                   ag, uniqueArtistAlbumMap, errs, m, wg, crashed, mainpc, result,
                   stdout, stderr, code>>

\* errs = append(errs, ...) runs without the mutex: the read of errs ...
UnitErrLoad(u) ==
    /\ ~crashed
    /\ pc[u] = "errload"
    /\ tmp' = [tmp EXCEPT ![u] = errs]
    /\ pc' = [pc EXCEPT ![u] = "errstore"]
    /\ UNCHANGED <<call, retv, service, args, as, vi, gs, err, searched, nfetch, nempty, failed,
                   last, ag, uniqueArtistAlbumMap, errs, m, wg, crashed, mainpc,
                   result, stdout, stderr, code>>

\* ... and the write of the appended slice are two steps.
UnitErrStore(u) ==
    /\ ~crashed
    /\ pc[u] = "errstore"
    /\ errs' = Append(tmp[u], Errorf(as[u].both, err[u]))
    /\ tmp' = [tmp EXCEPT ![u] = <<>>]
    /\ pc' = [pc EXCEPT ![u] = "lock2"]
    /\ UNCHANGED <<call, retv, service, args, as, vi, gs, err, searched, nfetch, nempty, failed,
                   last, ag, uniqueArtistAlbumMap, m, wg, crashed, mainpc, result,
                   stdout, stderr, code>>

\* m.Lock() before the write of the result
UnitRelock(u) ==
    /\ ~crashed
    /\ pc[u] = "lock2"
    /\ m = 0
    /\ m' = u
    /\ pc' = [pc EXCEPT ![u] = "store"]
    /\ UNCHANGED <<call, retv, service, args, as, vi, gs, err, tmp, searched, nfetch, nempty,
                   failed, last, ag, uniqueArtistAlbumMap, errs, wg, crashed, mainpc,
                   result, stdout, stderr, code>>

\* uniqueArtistAlbumMap[q] = gs; m.Unlock(); and the deferred wg.Done()
UnitStore(u) ==
    /\ ~crashed
    /\ pc[u] = "store"
    /\ uniqueArtistAlbumMap' = Put(uniqueArtistAlbumMap, as[u], gs[u])
    /\ m' = 0
    /\ wg' = Done(wg)
    /\ pc' = [pc EXCEPT ![u] = "done"]
    /\ UNCHANGED <<call, retv, service, args, as, vi, gs, err, tmp, searched, nfetch, nempty,
                   failed, last, ag, errs, crashed, mainpc, result, stdout, stderr,
                   code>>

\* ---------------------------------------------------------------- main

\* The projection leaves out the records that have no entry in the table.
ProjectPresent(map, batch) ==
    LET kept == SelectSeq(batch, LAMBDA q : q \in DOMAIN map)
    IN  [i \in 1..Len(kept) |-> map[kept[i]]]

\* The projection of the table into input order.
Project(map, batch) == [i \in 1..Len(batch) |-> Get(map, batch[i])]

\* The join does not wait for the goroutines.
WaitReturnsAtOnce(n) == TRUE

\* wg.Wait() returns when the counter of the wait group is zero.
WaitReturns(n) == n = 0

\* wg.Wait() returns, and multipleAlbumGenres returns the projection and errs.
MainWait ==
    /\ ~crashed
    /\ mainpc = "wait"
    /\ WaitReturns(wg)
    /\ result' = Project(uniqueArtistAlbumMap, as)
    /\ mainpc' = "print"
    /\ UNCHANGED <<call, retv, service, args, as, pc, vi, gs, err, tmp, searched, nfetch, nempty,
                   failed, last, ag, uniqueArtistAlbumMap, errs, m, wg, crashed,
                   stdout, stderr, code>>

\* for _, g := range gs { if g == nil { continue }; Println(Join(g, "; ")) }
Lines(res) ==
    LET kept == SelectSeq(res, LAMBDA g : ~g.isNil)
    IN  [i \in 1..Len(kept) |-> Join(kept[i].xs, OutSep)]

\* main prints the errors, then the lines, and exits.
MainPrint ==
    /\ ~crashed
    /\ mainpc = "print"
    /\ stderr' = errs
    /\ code' = IF errs # <<>> THEN 1 ELSE 0
    /\ stdout' = Lines(result)
    /\ mainpc' = "exit"
    /\ UNCHANGED <<call, retv, service, args, as, pc, vi, gs, err, tmp, searched, nfetch, nempty,
                   failed, last, ag, uniqueArtistAlbumMap, errs, m, wg, crashed,
                   result>>

\* A panic of a goroutine ends the process: every step needs ~crashed.
Next ==
    \/ \E u \in Units : UnitCheck(u)
    \/ \E u \in Units : UnitLock(u)
    \/ \E u \in Units : UnitTestAndSet(u)
    \/ \E u \in Units : AlbumGenresNext(u)
    \/ \E u \in Units : AlbumGenresExhausted(u)
    \/ \E u \in Units : UnitErrLoad(u)
    \/ \E u \in Units : UnitErrStore(u)
    \/ \E u \in Units : UnitRelock(u)
    \/ \E u \in Units : UnitStore(u)
    \/ MainWait
    \/ MainPrint

\* A batch of up to MaxBatch tokens.
Init == InitOn(Batches, "brief") /\ call = NoCall /\ retv = <<>>

Spec == Init /\ [][Next]_vars

\* A batch of one token: the resolution of one record.
InitOne == InitOn(BatchesOne, "full") /\ call = NoCall /\ retv = <<>>

SpecOne == InitOne /\ [][Next]_vars

\* The steps of goroutine u.
Step(u) ==
    /\ u \in Units
    /\ \/ UnitCheck(u)
       \/ UnitLock(u)
       \/ UnitTestAndSet(u)
       \/ AlbumGenresNext(u)
       \/ AlbumGenresExhausted(u)
       \/ UnitErrLoad(u)
       \/ UnitErrStore(u)
       \/ UnitRelock(u)
       \/ UnitStore(u)

\* The scheduler is fair: a goroutine that can take a step, and main when it
\* can, eventually do.
Fairness ==
    /\ \A u \in 1..MaxBatch : WF_vars(Step(u))
    /\ WF_vars(MainWait)
    /\ WF_vars(MainPrint)

InitFair == InitOn(BatchesTerse, "terse") /\ call = NoCall /\ retv = <<>>

SpecFair == InitFair /\ [][Next]_vars /\ Fairness

\* --------------------------- the scheduler of src/unnamed/part_000:364-407

\* In this revision every goroutine defers m.Unlock() together with
\* wg.Done(), the error is appended under the mutex, and sync.Mutex knows no
\* owner: Unlock releases the mutex whoever locked it, and panics when the
\* mutex is not locked.

\* if q == (artistAlbum{}) { return }: the deferred function runs next.
DeferCheck(u) ==
    /\ ~crashed
    /\ pc[u] = "check"
    /\ pc' = [pc EXCEPT ![u] = IF IsZero(as[u]) THEN "defer" ELSE "lock"]
    /\ UNCHANGED <<call, retv, service, args, as, vi, gs, err, tmp, searched, nfetch, nempty,
                   failed, last, ag, uniqueArtistAlbumMap, errs, m, wg, crashed, mainpc,
                   result, stdout, stderr, code>>

\* _, ok := uniqueArtistAlbumMap[q]; if ok { return }; uniqueArtistAlbumMap[q] = nil
DeferTestAndSet(u) ==
    /\ ~crashed
    /\ pc[u] = "test"
    /\ IF Has(uniqueArtistAlbumMap, as[u])
       THEN /\ pc' = [pc EXCEPT ![u] = "defer"]
            /\ UNCHANGED <<uniqueArtistAlbumMap, ag>>
       ELSE /\ uniqueArtistAlbumMap' = Put(uniqueArtistAlbumMap, as[u], NilSlice)
            /\ pc' = [pc EXCEPT ![u] = "unlock"]
            /\ ag' = [ag EXCEPT ![u] = @ + 1]
    /\ UNCHANGED <<call, retv, service, args, as, vi, gs, err, tmp, searched, nfetch, nempty,
                   failed, last, errs, m, wg, crashed, mainpc, result, stdout, stderr,
                   code>>

\* m.Unlock() before AlbumGenres: a panic if the mutex is not locked.
DeferUnlockBeforeAlbumGenres(u) ==
    /\ ~crashed
    /\ pc[u] = "unlock"
    /\ IF m = 0
       THEN crashed' = TRUE /\ pc' = [pc EXCEPT ![u] = "panic"] /\ m' = m
       ELSE crashed' = crashed /\ pc' = [pc EXCEPT ![u] = "resolve"] /\ m' = 0
    /\ UNCHANGED <<call, retv, service, args, as, vi, gs, err, tmp, searched, nfetch, nempty,
                   failed, last, ag, uniqueArtistAlbumMap, errs, wg, mainpc, result,
                   stdout, stderr, code>>

\* m.Lock() after AlbumGenres returned, with or without an error.
DeferRelock(u) ==
    /\ ~crashed
    /\ pc[u] \in {"errload", "lock2"}
    /\ m = 0
    /\ m' = u
    /\ pc' = [pc EXCEPT ![u] = "store"]
    /\ UNCHANGED <<call, retv, service, args, as, vi, gs, err, tmp, searched, nfetch, nempty,
                   failed, last, ag, uniqueArtistAlbumMap, errs, wg, crashed, mainpc,
                   result, stdout, stderr, code>>

\* if err != nil { errs = append(errs, ...) }; uniqueArtistAlbumMap[q] = gs
DeferStore(u) ==
    /\ ~crashed
    /\ pc[u] = "store"
    /\ errs' = IF err[u] # ErrNil THEN Append(errs, Errorf(as[u].both, err[u])) ELSE errs
    /\ uniqueArtistAlbumMap' = Put(uniqueArtistAlbumMap, as[u], gs[u])
    /\ pc' = [pc EXCEPT ![u] = "defer"]
    /\ UNCHANGED <<call, retv, service, args, as, vi, gs, err, tmp, searched, nfetch, nempty,
                   failed, last, ag, m, wg, crashed, mainpc, result, stdout, stderr,
                   code>>

\* defer func() { m.Unlock(); wg.Done(); runtime.Gosched() }(): on every
\* return, also the one before m.Lock().
DeferredUnlock(u) ==
    /\ ~crashed
    /\ pc[u] = "defer"
    /\ IF m = 0
       THEN /\ crashed' = TRUE
            /\ pc' = [pc EXCEPT ![u] = "panic"]
            /\ UNCHANGED <<m, wg>>
       ELSE /\ m' = 0
            /\ wg' = Done(wg)
            /\ pc' = [pc EXCEPT ![u] = "done"]
            /\ crashed' = crashed
    /\ UNCHANGED <<call, retv, service, args, as, vi, gs, err, tmp, searched, nfetch, nempty,
                   failed, last, ag, uniqueArtistAlbumMap, errs, mainpc, result, stdout,
                   stderr, code>>

NextDefer ==
    \/ \E u \in Units : DeferCheck(u)
    \/ \E u \in Units : UnitLock(u)
    \/ \E u \in Units : DeferTestAndSet(u)
    \/ \E u \in Units : DeferUnlockBeforeAlbumGenres(u)
    \/ \E u \in Units : AlbumGenresNext(u)
    \/ \E u \in Units : AlbumGenresExhausted(u)
    \/ \E u \in Units : DeferRelock(u)
    \/ \E u \in Units : DeferStore(u)
    \/ \E u \in Units : DeferredUnlock(u)
    \/ MainWait

SpecDefer == InitFair /\ [][NextDefer]_vars

\* ------------------------------------------------- functions on their own

\* The strings of at most n characters over an alphabet.
Strs(alphabet, n) == UNION { [1..k -> alphabet] : k \in 0..n }

\* The artists and albums searchVariants is called with.
Names == Strs({"A", "X"}, MaxName)

\* The status codes of a reply.
StatusCodes == 0..MaxStatus

\* The elements of the array of a search reply: a string, a list of strings
\* (empty or not), a number, a list of numbers.
Elems == {JStr("q"), URIs0, URIs1, JNum, JArr(<<JNum>>)}

\* The bodies decodeSearchResponse is called with: no JSON, null, and every
\* array of at most MaxElems elements.
DecodeBodies == {JMalformed, JNull} \cup {JArr(xs) : xs \in Strs(Elems, MaxElems)}

\* The command-line arguments artistAlbumsFromCLI is called with, one a call.
Args == Strs({"a", " ", "-"}, MaxArg)

\* The parts the lines of a foobar2000 playlist are made of: the artist, the
\* album, the disc and the track qualifiers, each possibly missing.
ItemArtists == {<<>>, <<"A">>, <<"A", " ", "-", " ", "B">>}
ItemAlbums == {<<>>, <<"X">>, <<"X", " ", "Y">>, <<"X", " ", "C", "D", "1", " ", "Y">>}
ItemCDs == {<<>>, <<" ", "C", "D", "1">>, <<" ", "C", "D", "1", "2">>}
ItemTracks == {<<>>, <<" ", "#", "3">>}

\* "ARTIST - [ALBUM CDn #n]"
Item(artist, album, cd, track) ==
    (IF artist = <<>> THEN <<>> ELSE artist \o Sep)
    \o <<"[">> \o album \o cd \o track \o <<"]">>

\* Lines without a bracketed field.
PlainItems ==
    { <<"A">>,
      <<"A">> \o Sep \o <<"X">>,
      <<"A">> \o Sep \o <<"[", "X">>,
      <<"X", "]">> }

\* The lines parseFoobar2kItem is called with.
Items ==
    PlainItems
    \cup {Item(a, al, cd, tr) : a \in ItemArtists, al \in ItemAlbums,
                                cd \in ItemCDs, tr \in ItemTracks}

\* The characters of a link text, each with its bytes: two letters, the space
\* and "\u00e9".
TextChars == {<<"r">>, <<"P">>, <<" ">>, <<"0xC3", "0xA9">>}

\* The bytes of a sequence of characters.
RECURSIVE Bytes(_)
Bytes(cs) == IF Len(cs) = 0 THEN <<>> ELSE Head(cs) \o Bytes(Tail(cs))

\* The link texts title is called with, as sequences of characters.
LinkTexts == Strs(TextChars, MaxText)

\* The documents scrapeGenres is called with: each selection matches at most
\* MaxLinks links, a link with no text among them.
CallDocs ==
    [tier1 : Strs({Rock, Pop, <<>>}, MaxLinks), tier2 : Strs({Rock, Pop, <<>>}, MaxLinks)]

\* The calls of one function on one input.
Calls ==
    [fn : {"searchVariants"}, in : [artist : Names, album : Names]]
    \cup [fn : {"searchWikipedia"},
          in : [terr : {FALSE}, status : StatusCodes, body : {BodyNoURIs, BodyURIs}]]
    \cup [fn : {"wikipediaPage"}, in : [terr : {FALSE}, status : StatusCodes]]
    \cup [fn : {"decodeSearchResponse"}, in : DecodeBodies]
    \cup [fn : {"artistAlbumsFromCLI"}, in : [1..1 -> Args]]
    \cup [fn : {"parseFoobar2kItem"}, in : Items]
    \cup [fn : {"title"}, in : LinkTexts]
    \cup [fn : {"scrapeGenres"}, in : CallDocs]

\* The program does not run: one function is called on one input.
InitCall ==
    /\ InitOn({<<>>}, "full")
    /\ call \in Calls
    /\ retv = <<>>

\* What a call leaves alone.
progvars == <<service, args, as, pc, vi, gs, err, tmp, searched, nfetch, nempty,
              failed, last, ag, uniqueArtistAlbumMap, errs, m, wg, crashed, mainpc,
              result, stdout, stderr, code>>

CallSearchVariants ==
    /\ call.fn = "searchVariants"
    /\ retv = <<>>
    /\ retv' = <<searchVariants(call.in.artist, call.in.album)>>
    /\ UNCHANGED <<call, progvars>>

CallSearchWikipedia ==
    /\ call.fn = "searchWikipedia"
    /\ retv = <<>>
    /\ retv' = <<searchWikipedia(call.in)>>
    /\ UNCHANGED <<call, progvars>>

CallWikipediaPage ==
    /\ call.fn = "wikipediaPage"
    /\ retv = <<>>
    /\ retv' = <<wikipediaPage(call.in)>>
    /\ UNCHANGED <<call, progvars>>

CallDecodeSearchResponse ==
    /\ call.fn = "decodeSearchResponse"
    /\ retv = <<>>
    /\ retv' = <<decodeSearchResponse(call.in)>>
    /\ UNCHANGED <<call, progvars>>

CallArtistAlbumsFromCLI ==
    /\ call.fn = "artistAlbumsFromCLI"
    /\ retv = <<>>
    /\ retv' = <<artistAlbumsFromCLI(call.in)>>
    /\ UNCHANGED <<call, progvars>>

CallParseFoobar2kItem ==
    /\ call.fn = "parseFoobar2kItem"
    /\ retv = <<>>
    /\ retv' = <<parseFoobar2kItem(call.in)>>
    /\ UNCHANGED <<call, progvars>>

\* title(link.Text()): it panics, or returns the string v.
CallTitle ==
    /\ call.fn = "title"
    /\ retv = <<>>
    /\ retv' = IF titlePanics(Bytes(call.in))
               THEN <<[panic |-> TRUE, v |-> <<>>]>>
               ELSE <<[panic |-> FALSE, v |-> title(Bytes(call.in))]>>
    /\ UNCHANGED <<call, progvars>>

\* scrapeGenres(doc): it panics in title, or returns the slice v.
CallScrapeGenres ==
    /\ call.fn = "scrapeGenres"
    /\ retv = <<>>
    /\ retv' = IF scrapeGenresPanics(call.in)
               THEN <<[panic |-> TRUE, v |-> NilSlice]>>
               ELSE <<[panic |-> FALSE, v |-> scrapeGenres(call.in)]>>
    /\ UNCHANGED <<call, progvars>>

NextCall ==
    \/ CallSearchVariants
    \/ CallSearchWikipedia
    \/ CallWikipediaPage
    \/ CallDecodeSearchResponse
    \/ CallArtistAlbumsFromCLI
    \/ CallParseFoobar2kItem
    \/ CallTitle
    \/ CallScrapeGenres

SpecCall == InitCall /\ [][NextCall]_vars

\* ------------------------------------------------------------- claims

\* A list with genres in it.
NonEmpty(g) == Len(g.xs) > 0

\* The goroutines of the batch that called AlbumGenres for the key q.
Resolvers(q) == {u \in Units : as[u] = q /\ ag[u] >= 1}

\* AlbumGenres has returned to goroutine u.
Returned(u) == ag[u] >= 1 /\ pc[u] \in {"errload", "errstore", "lock2", "store", "done"}

\* C1: whatever the batch and the interleaving, no goroutine calls AlbumGenres
\* twice, no two goroutines call it for the same table key, and once every
\* goroutine is done each non-zero key of the batch was resolved exactly once.
C1_OneResolutionPerKey ==
    \A u \in Units :
        /\ ag[u] <= 1
        /\ Cardinality(Resolvers(as[u])) <= 1
        /\ (wg = 0 /\ ~IsZero(as[u])) => Cardinality(Resolvers(as[u])) = 1

\* Two records with the same non-zero key, all goroutines done, one resolved it.
C1_Witness ==
    \E u, v \in Units :
        /\ u # v /\ as[u] = as[v] /\ ~IsZero(as[u])
        /\ wg = 0
        /\ ag[u] = 1 /\ ag[v] = 0 /\ Len(searched[u]) > 0

\* C2: what multipleAlbumGenres returns has the length of the batch; position i
\* holds what the goroutine that resolved record i's key got from AlbumGenres
\* (nil for a record nobody resolved), so positions with equal keys hold the
\* same list, an empty one when that resolution returned an error.
C2_ResultInInputOrder ==
    mainpc # "wait" =>
        /\ Len(result) = Len(as)
        /\ \A i \in 1..Len(as) :
              /\ \A u \in Resolvers(as[i]) :
                    /\ result[i] = gs[u]
                    /\ err[u] # ErrNil => Len(result[i].xs) = 0
              /\ Resolvers(as[i]) = {} => result[i] = NilSlice
              /\ \A j \in 1..Len(as) : as[i] = as[j] => result[i] = result[j]

\* The join returned for a batch of two records with different keys, one of
\* them the zero record, the other resolved to genres.
C2_WitnessZeroRecord ==
    /\ mainpc # "wait"
    /\ \E i, j \in 1..Len(as) :
          /\ IsZero(as[i]) /\ ~IsZero(as[j])
          /\ NonEmpty(result[j])

\* The join returned for two records with the same key whose one resolution
\* returned an error.
C2_Witness ==
    /\ mainpc # "wait"
    /\ \E i, j \in 1..Len(as) :
          /\ i # j /\ as[i] = as[j]
          /\ \E u \in Resolvers(as[i]) : err[u] \notin {ErrNil, ErrNoGenres}

\* C3: two records of one batch with the same (artist, album) pair, whatever
\* their raw text, are resolved once and read the same entry of the table.
C3_SamePairResolvedOnce ==
    \A u, v \in Units :
        (u # v /\ as[u].artist = as[v].artist /\ as[u].album = as[v].album)
            => /\ ~(ag[u] >= 1 /\ ag[v] >= 1)
               /\ mainpc # "wait" => result[u] = result[v]

\* C4: the program writes one line per record of the batch, in input order:
\* the genres joined by "; ", an empty line for a record without genres.
C4_OneLinePerRecord ==
    mainpc = "exit" =>
        /\ Len(stdout) = Len(as)
        /\ \A i \in 1..Len(as) : stdout[i] = Join(result[i].xs, OutSep)

\* The variants 1..n, in order.
UpTo(n) == [i \in 1..n |-> i]

\* C5: when the page fetch for the first variant's first URI fails, albumGenres
\* and AlbumGenres return the fetch error as an error value, and no second
\* variant is searched or fetched.
C5_FetchErrorReturned ==
    \A u \in Units :
        (failed[u] = "fetch" /\ searched[u] = <<1>>)
            => /\ ~crashed
               /\ Returned(u)
               /\ err[u] \in {ErrPageTransport, ErrPageStatus}
               /\ nfetch[u] = 1

\* C6: a batch in which a resolution fails at its search, decode, fetch or parse
\* step still completes (no goroutine takes the process down), and the records
\* with another key get the result of their own resolution.
C6_FailureKeepsBatchRunning ==
    /\ \A u \in Units :
          failed[u] \in {"search", "decode", "fetch", "parse"} => ~crashed /\ Returned(u)
    /\ mainpc # "wait" =>
          \A i \in 1..Len(as) : \A u \in Resolvers(as[i]) : result[i] = gs[u]

\* C7: AlbumGenres looks the variants up in the order of searchVariants, each
\* at most once, and a lookup that returns genres ends it: it returns that list
\* with no error and looks no later variant up.
C7_StopsAtFirstGenres ==
    \A u \in Units :
        /\ Len(searched[u]) <= Len(Variants(u))
        /\ searched[u] = UpTo(Len(searched[u]))
        /\ NonEmpty(last[u]) =>
              /\ Returned(u)
              /\ gs[u] = last[u]
              /\ err[u] = ErrNil
              /\ vi[u] = Len(searched[u])
        /\ (Returned(u) /\ NonEmpty(gs[u])) => gs[u] = last[u]

\* AlbumGenres returned the genres of the third of four variants, after two
\* lookups without genres, one of them with a page fetched.
C7_Witness ==
    \E u \in Units :
        /\ Returned(u) /\ NonEmpty(gs[u])
        /\ Len(Variants(u)) = 4
        /\ searched[u] = <<1, 2, 3>>
        /\ nfetch[u] = 2

\* C8: when the search step of a variant fails (transport, HTTP status, or a
\* response that cannot be decoded), AlbumGenres returns that error with no
\* genres, and no later variant is searched.
C8_SearchErrorReturned ==
    \A u \in Units :
        failed[u] \in {"search", "decode"}
            => /\ ~crashed
               /\ Returned(u)
               /\ err[u] \in {ErrSearchTransport, ErrSearchStatus, ErrJson, ErrAssert}
               /\ gs[u] = NilSlice
               /\ vi[u] = Len(searched[u])

\* C9: when every search of a record came back with no URI, no page is
\* fetched, and AlbumGenres returns after one search per variant, in order,
\* with no genres and ErrNoGenres.
C9_NoURIsGivesErrNoGenres ==
    \A u \in Units :
        nempty[u] = Len(searched[u]) =>
            /\ nfetch[u] = 0
            /\ Returned(u) =>
                  /\ searched[u] = UpTo(Len(Variants(u)))
                  /\ Len(gs[u].xs) = 0
                  /\ err[u] = ErrNoGenres

\* A record with four variants, each searched with no URI found, ended in
\* ErrNoGenres.
C9_Witness ==
    \E u \in Units :
        /\ Returned(u)
        /\ Len(Variants(u)) = 4
        /\ nempty[u] = 4
        /\ err[u] = ErrNoGenres

\* C10: a record whose artist and album are both empty, whatever its raw key,
\* is skipped: no entry in the table, no call of AlbumGenres, no network call,
\* no error in the error collection.
C10_EmptyPairSkipped ==
    \A u \in Units :
        (as[u].artist = <<>> /\ as[u].album = <<>>)
            => /\ ag[u] = 0
               /\ ~Has(uniqueArtistAlbumMap, as[u])
               /\ searched[u] = <<>>
               /\ \A i \in 1..Len(errs) : errs[i].both # as[u].both

\* The goroutines whose call of AlbumGenres returned an error.
Failing == {u \in Units : ag[u] >= 1 /\ err[u] # ErrNil}

\* C11: once every goroutine is done, errs holds exactly one error for each
\* key whose resolution returned an error, that error under that key, and
\* nothing else: no error is lost or written twice.
C11_OneErrorPerFailedKey ==
    mainpc # "wait" =>
        /\ Len(errs) = Cardinality(Failing)
        /\ \A u \in Failing :
              Cardinality({i \in 1..Len(errs) : errs[i] = Errorf(as[u].both, err[u])}) = 1

\* C19: a goroutine that reads or writes the table, or is appending to errs,
\* holds the mutex, so no two goroutines are at such an access together.
C19_AccessUnderMutex ==
    /\ \A u \in Units : pc[u] \in {"test", "store", "errstore"} => m = u
    /\ \A u, v \in Units :
          (u # v /\ pc[u] \in {"test", "store", "errstore"})
              => pc[v] \notin {"test", "store", "errstore"}

\* C20: a goroutine holds the mutex only while it tests or stores its entry of
\* the table: it has released it when it calls AlbumGenres and takes it again
\* only after AlbumGenres returned.
C20_NoMutexDuringResolution ==
    \A u \in Units :
        /\ pc[u] = "resolve" => m # u
        /\ m = u => pc[u] \in {"test", "store"}
        /\ (m = u /\ pc[u] = "store") => Returned(u)

\* A goroutine is in the middle of its lookups while another one holds the mutex.
C20_Witness ==
    \E u, v \in Units :
        /\ u # v
        /\ pc[u] = "resolve" /\ Len(searched[u]) > 0
        /\ m = v

\* "{album} ({artist} album)"
WithArtistAlbum(artist, album) ==
    album \o <<" ", "(">> \o artist \o <<" ", "a", "l", "b", "u", "m", ")">>

\* "{album} (album)"
WithAlbum(album) == album \o <<" ", "(", "a", "l", "b", "u", "m", ")">>

\* C12: searchVariants(artist, album) is, in this order, "{album} ({artist}
\* album)" when both are non-empty, "{album} (album)" and "{album}" when album
\* is non-empty, "{artist}" when artist is non-empty, and nothing else: 4, 2, 1
\* or 0 variants, equal strings kept.
C12_SearchVariantsExact ==
    (call.fn = "searchVariants" /\ retv # <<>>) =>
        LET artist == call.in.artist
            album == call.in.album
            v == retv[1]
        IN  /\ (artist # <<>> /\ album # <<>>) =>
                  v = <<WithArtistAlbum(artist, album), WithAlbum(album), album, artist>>
            /\ (artist = <<>> /\ album # <<>>) => v = <<WithAlbum(album), album>>
            /\ (artist # <<>> /\ album = <<>>) => v = <<artist>>
            /\ (artist = <<>> /\ album = <<>>) => v = <<>>

\* searchVariants returned four variants for an artist equal to the album: the
\* last two are the same string.
C12_Witness ==
    /\ call.fn = "searchVariants" /\ retv # <<>>
    /\ call.in.artist = call.in.album
    /\ Len(retv[1]) = 4
    /\ retv[1][3] = retv[1][4]

\* The reply of a called searchWikipedia or wikipediaPage was accepted: the
\* call did not return the error of a refused status.
Accepted == retv[1].err \notin {ErrSearchStatus, ErrPageStatus}

\* C13 (as stated): the reply of the search and of the page fetch is accepted
\* if and only if its status is in 200..399.
C13_AcceptedIff2xx3xx ==
    (call.fn \in {"searchWikipedia", "wikipediaPage"} /\ retv # <<>>) =>
        (Accepted <=> (200 <= call.in.status /\ call.in.status <= 399))

\* C13 (amended): the reply of the search and of the page fetch is refused, with
\* the error of the step, if and only if its status is in 400..599; every
\* other status, below 200 and from 600 on included, is accepted: the search
\* goes on to decode the body, the page fetch returns the response and no error.
C13_RefusedIff4xx5xx ==
    (call.fn \in {"searchWikipedia", "wikipediaPage"} /\ retv # <<>>) =>
        LET refused == 400 <= call.in.status /\ call.in.status <= 599
        IN  /\ ~Accepted <=> refused
            /\ (call.fn = "searchWikipedia" /\ ~refused) =>
                  retv[1] = decodeSearchResponse(call.in.body)
            /\ (call.fn = "wikipediaPage" /\ ~refused) =>
                  retv[1].err = ErrNil /\ ~retv[1].respNil
            /\ (call.fn = "wikipediaPage" /\ refused) => retv[1].respNil

\* A page fetch answered with status 600 returned its response and no error.
C13_Witness ==
    /\ call.fn = "wikipediaPage" /\ retv # <<>>
    /\ call.in.status = 600
    /\ retv[1].err = ErrNil /\ ~retv[1].respNil

\* The body is a 4-element array of (string, list of strings, list of strings,
\* list of strings).
Conforms(body) ==
    /\ body.t = "array"
    /\ Len(body.xs) = 4
    /\ body.xs[1].t = "string"
    /\ \A k \in 2..4 :
          /\ body.xs[k].t = "array"
          /\ \A i \in 1..Len(body.xs[k].xs) : body.xs[k].xs[i].t = "string"

\* C14: decodeSearchResponse on a body that is not a 4-element array of
\* (string, list of strings, list of strings, list of strings) returns a
\* decode error: it does not panic and does not accept the body.
C14_ShapeMismatchIsDecodeError ==
    (call.fn = "decodeSearchResponse" /\ retv # <<>> /\ ~Conforms(call.in)) =>
        /\ ~retv[1].panic
        /\ retv[1].err \in {ErrJson, ErrAssert}

\* The text " - " stands at position i of the token t.
SepAt(t, i) == i + 2 <= Len(t) /\ t[i] = " " /\ t[i + 1] = "-" /\ t[i + 2] = " "

\* C15: artistAlbumsFromCLI makes of a token that contains " - " the record
\* whose artist is the text before the first " - " and whose album is all the
\* text after it (artist + " - " + album is the token, and no " - " is in the
\* artist); of a token without " - " the record with no artist and the token
\* as album; the raw key is the token in both cases.
C15_SplitAtFirstSeparator ==
    (call.fn = "artistAlbumsFromCLI" /\ retv # <<>>) =>
        LET t == call.in[1]
            q == retv[1][1]
        IN  /\ Len(retv[1]) = 1
            /\ q.both = t
            /\ (\A i \in 1..Len(t) : ~SepAt(t, i)) => q.artist = <<>> /\ q.album = t
            /\ \A i \in 1..Len(t) :
                  (SepAt(t, i) /\ \A j \in 1..(i - 1) : ~SepAt(t, j)) =>
                      /\ q.artist = SubSeq(t, 1, i - 1)
                      /\ q.album = SubSeq(t, i + 3, Len(t))
                      /\ q.artist \o <<" ", "-", " ">> \o q.album = t
                      /\ \A j \in 1..Len(q.artist) : ~SepAt(q.artist, j)

\* A token with " - " in two places was split at the first: the album still
\* holds the second.
C15_Witness ==
    /\ call.fn = "artistAlbumsFromCLI" /\ retv # <<>>
    /\ retv[1][1].artist # <<>>
    /\ \E j \in 1..Len(retv[1][1].album) : SepAt(retv[1][1].album, j)

\* C16: parseFoobar2kItem makes of a line "ARTIST - [ALBUM CDn #n]", the
\* artist prefix, the album and each qualifier possibly missing, the record
\* with that artist, with the album without its qualifiers, and with the raw
\* key "ARTIST - ALBUM", or the one of the two that is not empty; of a line
\* without a bracketed field it makes the zero record.
C16_ItemParsed ==
    (call.fn = "parseFoobar2kItem" /\ retv # <<>>) =>
        /\ call.in \in PlainItems => retv[1] = [artist |-> <<>>, album |-> <<>>, both |-> <<>>]
        /\ \A a \in ItemArtists, al \in ItemAlbums, cd \in ItemCDs, tr \in ItemTracks :
              call.in = Item(a, al, cd, tr) =>
                  /\ retv[1].artist = a
                  /\ retv[1].album = al
                  /\ retv[1].both = IF a = <<>> THEN al
                                    ELSE IF al = <<>> THEN a
                                    ELSE a \o <<" ", "-", " ">> \o al

\* The upper case of a character.
UpperChar(c) ==
    CASE c = <<"r">> -> <<"R">>
      [] c = <<"0xC3", "0xA9">> -> <<"0xC3", "0x89">>
      [] OTHER -> c

\* The text cs with the first character of each space-delimited segment in
\* upper case.
FirstsUpper(cs) ==
    [i \in 1..Len(cs) |-> IF i = 1 \/ cs[i - 1] = <<" ">> THEN UpperChar(cs[i]) ELSE cs[i]]

\* C17: title returns, for every link text, a string of the same length with
\* the first character of each space-delimited segment in upper case and every
\* other character, the spaces too, as it was; title of that string is that
\* string again.
C17_TitleUpperCasesFirsts ==
    (call.fn = "title" /\ retv # <<>>) =>
        /\ ~retv[1].panic
        /\ retv[1].v = Bytes(FirstsUpper(call.in))
        /\ Len(retv[1].v) = Len(Bytes(call.in))
        /\ ~titlePanics(retv[1].v) /\ title(retv[1].v) = retv[1].v

\* The link texts of a selection, each with the first character of each of
\* its segments in upper case.
Titled(texts) ==
    [i \in 1..Len(texts) |->
        [k \in 1..Len(texts[i]) |->
            IF k = 1 \/ texts[i][k - 1] = " "
            THEN (CASE texts[i][k] = "r" -> "R" [] texts[i][k] = "p" -> "P" [] OTHER -> texts[i][k])
            ELSE texts[i][k]]]

\* C18: scrapeGenres returns, for every document, the title-cased texts of the
\* Tier 1 links when there is at least one, and otherwise the title-cased texts
\* of the Tier 2 links, possibly none: in document order, equal texts kept, and
\* no Tier 2 text after Tier 1 texts.
C18_FirstTierWins ==
    (call.fn = "scrapeGenres" /\ retv # <<>>) =>
        /\ ~retv[1].panic
        /\ Len(call.in.tier1) > 0 => retv[1].v.xs = Titled(call.in.tier1)
        /\ Len(call.in.tier1) = 0 => retv[1].v.xs = Titled(call.in.tier2)

\* C21: main reads the table and errs only when every goroutine has called
\* wg.Done(); a goroutine that has called it takes no further step, and from
\* the read on the table and errs do not change: the result is the projection
\* of the final table, and the errors printed are the final errs.
C21_ReadAfterJoin ==
    /\ [](mainpc # "wait" =>
            /\ \A u \in Units : pc[u] = "done"
            /\ \A i \in 1..Len(as) :
                  result[i] = IF as[i] \in DOMAIN uniqueArtistAlbumMap
                              THEN uniqueArtistAlbumMap[as[i]]
                              ELSE [isNil |-> TRUE, xs |-> <<>>]
            /\ mainpc = "exit" => stderr = errs)
    /\ [][/\ \A u \in Units : pc[u] = "done" => pc'[u] = "done"
          /\ mainpc # "wait" =>
                uniqueArtistAlbumMap' = uniqueArtistAlbumMap /\ errs' = errs]_vars

\* main has printed for a batch of two records with different keys: one
\* resolved to genres, the other ended with an error in errs.
C21_Witness ==
    /\ mainpc = "exit"
    /\ \E i, j \in 1..Len(as) :
          /\ Len(result[i].xs) > 0
          /\ ag[j] = 1 /\ err[j] # ErrNil
          /\ \E k \in 1..Len(stderr) : stderr[k].both = as[j].both

\* C22: under a fair scheduler, in a batch where no call of AlbumGenres
\* panics, every goroutine eventually calls wg.Done() and wg.Wait()
\* eventually returns: none waits for the mutex for ever, and the counter of
\* the wait group is at every moment the number of goroutines not yet done,
\* zero exactly when the last one has finished.
C22_JoinReturns ==
    /\ [](wg = Cardinality({u \in Units : pc[u] # "done"}))
    /\ (<>crashed) \/ <>(mainpc # "wait" /\ wg = 0 /\ \A u \in Units : pc[u] = "done")

\* The join returned for a full batch of records with different keys, each
\* resolved by its own goroutine.
C22_Witness ==
    /\ mainpc # "wait" /\ wg = 0
    /\ Len(as) = MaxBatch
    /\ \A u \in Units : ag[u] = 1

\* The errors of the search, decode, fetch and parse steps.
StepErrors ==
    {ErrSearchTransport, ErrSearchStatus, ErrJson, ErrAssert, ErrPageTransport,
     ErrPageStatus, ErrParse}

C24_TitleNeverPanics ==
    (call.fn \in {"title", "scrapeGenres"} /\ retv # <<>>) => ~retv[1].panic

\* C25: in the scheduler of src/unnamed/part_000:364-407 a goroutine that is
\* about to call m.Unlock(), before AlbumGenres or in its deferred function,
\* has locked the mutex and not released it since; a goroutine of a zero
\* record, which returns before m.Lock(), never unlocks the mutex.
C25_UnlockByHolder ==
    \A u \in Units :
        /\ pc[u] \in {"unlock", "defer"} => m = u
        /\ IsZero(as[u]) => pc[u] # "defer"

====
